---- MODULE Spec2Model ----
(***************************************************************************)
(* State-machine model of the file analysis pipeline of pandas-ai:         *)
(*   smart_file_analyzer.py  FileDataAnalyzer (read_file, _read_txt,       *)
(*                           chat_with_llm, analyze_file, generate_charts) *)
(*   analyze_advanced.py     REPORT_TEMPLATES, main                        *)
(* Strings are modelled as sequences of one-character strings where the    *)
(* code looks inside them (file contents), and as short ASCII tokens       *)
(* where it only passes them on (questions, messages).                     *)
(***************************************************************************)
EXTENDS Integers, Sequences, FiniteSets, TLC

VARIABLES
  entry,       \* which function the run started in: "main", "analyze_file", "read_file"
  argv,        \* sys.argv[1:] of analyze_advanced.py (<<>> when entry # "main")
  file_path,   \* the path argument: <<stem, suffix>>
  fs,          \* what the file system holds at file_path
  kwargs,      \* **kwargs / **read_kwargs handed to the reader
  report_type, \* main's report_type, once main has set it
  questions,   \* the questions argument of analyze_file
  pc,          \* position of the run
  df,          \* the DataFrame read_file produced, or None
  invoked,     \* format handlers invoked so far, in order
  tried,       \* separators _read_txt has tried so far, in order
  out,         \* tags of the messages printed so far
  results,     \* the dict analyze_file is building / has returned
  requests,    \* POSTs to /api/generate so far: prompt and outcome
  inflight,    \* the POST waiting for its response, or NoRequest
  health,      \* GETs to /api/tags so far
  charts,      \* calls of generate_charts so far, each with its result
  report_file, \* the report text file main wrote, or NoFile
  exc,         \* the exception that escaped the entry function, or NoExc
  returned,    \* the dicts analyze_file has returned to its caller so far, in order
  reply,       \* what the last text-generation call returned to its caller, or NoReply
  session_history, \* DataAnalysisChat.session_history
  chat_log,    \* the operations on the DataAnalysisChat so far, each with its outcome
  environ,     \* os.environ: OPENAI_API_KEY and HUGGINGFACE_API_TOKEN
  services,    \* what each backend's setup meets: imports, constructors, the Ollama server
  probed,      \* the setup functions get_free_llm has called so far, each with its result
  llm          \* what get_free_llm returned, or NoLlm

vars == <<entry, argv, file_path, fs, kwargs, report_type, questions, pc, df, invoked, tried,
          out, results, requests, inflight, health, charts, report_file, exc, returned,
          reply, session_history, chat_log, environ, services, probed, llm>>

\* the state of data_chat.py and of free_ai_config.py, which the file analysis
\* pipeline never touches
session_vars == <<reply, session_history, chat_log>>
llm_vars == <<environ, services, probed, llm>>

(***************************** bounds ***************************************)
\* longest file content, in characters, drawn for the reader
MaxChars == 4
\* longest caller-supplied question list
MaxQuestions == 2
\* the most operations of one DataAnalysisChat session
MaxOps == 4

(***************************** values ***************************************)
NoArg == "<unset>"
NoExc == "<no exception>"
NoneDf == [kind |-> "None"]
NoRequest == [kind |-> "None"]
NoFile == [kind |-> "None"]
NoReply == [kind |-> "None"]
NoLlm == [kind |-> "None"]
NoEnviron == [OPENAI_API_KEY |-> NoArg, HUGGINGFACE_API_TOKEN |-> NoArg]
NoServices == [kind |-> "None"]

\* a byte that is not valid UTF-8 (it decodes under latin-1)
InvalidByte == "<FF>"
\* the characters file contents are drawn from
Chars == {",", "\t", ";", "|", " ", "a", "\n", InvalidByte}

\* reader options a caller can pass: none, sep=';', encoding='latin-1'
KwargsSet == {[sep |-> NoArg, encoding |-> NoArg],
              [sep |-> ";", encoding |-> NoArg],
              [sep |-> NoArg, encoding |-> "latin-1"]}

RECURSIVE StringsUpTo(_)
StringsUpTo(n) ==
  IF n = 0 THEN {<<>>}
  ELSE LET shorter == StringsUpTo(n - 1)
       IN shorter \cup {Append(s, c) : s \in {t \in shorter : Len(t) = n - 1}, c \in Chars}

(***************************** str helpers **********************************)
RECURSIVE split(_, _)
\* str.split(sep) for a one-character sep
split(s, sep) ==
  IF \A i \in 1..Len(s) : s[i] # sep THEN <<s>>
  ELSE LET i == CHOOSE k \in 1..Len(s) : s[k] = sep /\ \A j \in 1..(k - 1) : s[j] # sep
       IN <<SubSeq(s, 1, i - 1)>> \o split(SubSeq(s, i + 1, Len(s)), sep)

\* f.readlines(): the lines of the text, a final newline ending the last line
\* (the line terminators themselves are dropped here; strip() removes them anyway)
readlines(content) ==
  LET parts == split(content, "\n")
  IN IF parts[Len(parts)] = <<>> THEN SubSeq(parts, 1, Len(parts) - 1) ELSE parts

Whitespace == {" ", "\t", "\n"}

\* str.strip(): drop leading and trailing whitespace
strip(s) ==
  IF \A i \in 1..Len(s) : s[i] \in Whitespace THEN <<>>
  ELSE LET first == CHOOSE i \in 1..Len(s) :
                      s[i] \notin Whitespace /\ \A j \in 1..(i - 1) : s[j] \in Whitespace
           last == CHOOSE i \in 1..Len(s) :
                      s[i] \notin Whitespace /\ \A j \in (i + 1)..Len(s) : s[j] \in Whitespace
       IN SubSeq(s, first, last)

\* str.lower() on the suffixes and report types the model draws
lower(s) ==
  CASE s = ".CSV" -> ".csv"
    [] s = ".TXT" -> ".txt"
    [] s = "QUALITY" -> "quality"
    [] s = "Custom" -> "custom"
    [] OTHER -> s

Max(a, b) == IF a >= b THEN a ELSE b

(***************************** pandas readers *******************************)
Raise(e) == [raised |-> TRUE, exc |-> e, df |-> NoneDf]
Return(d) == [raised |-> FALSE, exc |-> NoExc, df |-> d]
DataFrame(cols, rows) == [kind |-> "DataFrame", columns |-> cols, rows |-> rows]

\* pd.read_csv(file_path, sep=sepArg, **kw) with the C parser's defaults: the first
\* non-blank line is the header and gives the columns; blank lines are skipped; a
\* first data row wider than the header becomes an implicit index; a later row
\* wider than that is a tokenizing error.
read_csv(content, sepArg, kw) ==
  IF sepArg # NoArg /\ kw.sep # NoArg THEN Raise("TypeError")
  ELSE LET sep == IF sepArg # NoArg THEN sepArg ELSE IF kw.sep # NoArg THEN kw.sep ELSE ","
           blank(l) == \A i \in 1..Len(l) : l[i] \in {" ", "\t"} /\ l[i] # sep
           keep(l) == ~blank(l)
           recs == SelectSeq(readlines(content), keep)
           width(i) == Len(split(recs[i], sep))
           expected == IF Len(recs) >= 2 THEN Max(width(1), width(2)) ELSE width(1)
       IN IF kw.encoding = NoArg /\ \E i \in 1..Len(content) : content[i] = InvalidByte
            THEN Raise("UnicodeDecodeError")
          ELSE IF recs = <<>> THEN Raise("EmptyDataError")
          ELSE IF \E i \in 3..Len(recs) : width(i) > expected THEN Raise("ParserError")
          ELSE Return(DataFrame(split(recs[1], sep),
                                [i \in 1..(Len(recs) - 1) |-> split(recs[i + 1], sep)]))

(***************************** the file system ******************************)
\* A file at file_path: whether it exists, its text (for the delimited-text
\* formats) and what the pandas reader of a binary/JSON format makes of it.
File(ex, content, parsed) == [exists |-> ex, content |-> content, parsed |-> parsed]

\* tables a pandas reader can return for a .json/.xlsx/.xls/.parquet file:
\* one without columns (pd.read_json of "[]", an empty sheet) and a 2x1 one
EmptyFrame == DataFrame(<<>>, <<>>)
SmallFrame == DataFrame(<< <<"x">>, <<"y">> >>, << << <<"1">>, <<"2">> >> >>)
ParsedSet == {Raise("ValueError"), Return(EmptyFrame), Return(SmallFrame)}

(***************************** FormatRegistry *******************************)
supported_formats_tsv_as_csv ==
  (".csv" :> "_read_csv") @@ (".xlsx" :> "_read_excel") @@ (".xls" :> "_read_excel") @@
  (".json" :> "_read_json") @@ (".parquet" :> "_read_parquet") @@
  (".tsv" :> "_read_csv") @@ (".txt" :> "_read_txt")
\* FileDataAnalyzer.__init__: self.supported_formats
supported_formats ==
  (".csv" :> "_read_csv") @@ (".xlsx" :> "_read_excel") @@ (".xls" :> "_read_excel") @@
  (".json" :> "_read_json") @@ (".parquet" :> "_read_parquet") @@
  (".tsv" :> "_read_tsv") @@ (".txt" :> "_read_txt")

_read_csv(f, kw) == read_csv(f.content, NoArg, kw)
_read_tsv(f, kw) == read_csv(f.content, "\t", kw)
_read_excel(f, kw) == f.parsed
_read_json(f, kw) == f.parsed
_read_parquet(f, kw) == f.parsed

\* self.supported_formats[file_ext](str(file_path), **kwargs) for the handlers
\* that are a single pandas call
call_handler(h, f, kw) ==
  CASE h = "_read_csv" -> _read_csv(f, kw)
    [] h = "_read_tsv" -> _read_tsv(f, kw)
    [] h = "_read_excel" -> _read_excel(f, kw)
    [] h = "_read_json" -> _read_json(f, kw)
    [] h = "_read_parquet" -> _read_parquet(f, kw)

separators_tab_first == <<"\t", ",", ";", "|", " ">>
\* _read_txt: the separators tried, in order
separators == <<",", "\t", ";", "|", " ">>

\* _read_txt: if len(df.columns) > 1: return df
accepts(r) == ~r.raised /\ Len(r.df.columns) > 1

\* _read_txt: open(file_path, 'r', encoding='utf-8').readlines(), then one
\* 'content' column of the stripped lines; undecodable bytes raise
read_lines_frame(content) ==
  IF \E i \in 1..Len(content) : content[i] = InvalidByte THEN Raise("UnicodeDecodeError")
  ELSE LET lines == readlines(content)
       IN Return(DataFrame(<< <<"content">> >>, [i \in 1..Len(lines) |-> <<strip(lines[i])>>]))

(***************************** TabularLoader ********************************)
exists_unchecked(f) == TRUE
\* read_file: file_path.exists()
exists(f) == f.exists

caught_reraised(r) ==
  IF r.raised THEN [df |-> NoneDf, msg |-> "read_failed", exc |-> r.exc]
  ELSE [df |-> r.df, msg |-> "read_ok", exc |-> NoExc]
\* read_file: try: df = handler(...); return df / except Exception as e: print; return None
caught(r) ==
  IF r.raised THEN [df |-> NoneDf, msg |-> "read_failed", exc |-> NoExc]
  ELSE [df |-> r.df, msg |-> "read_ok", exc |-> NoExc]

\* read_file, up to the handler call: the existence check, the suffix lookup, and
\* the whole call for every handler but _read_txt, whose loop runs step by step
read_file ==
  /\ pc = "read_file"
  /\ IF ~exists(fs)
       THEN /\ out' = Append(out, "file_not_found")
            /\ df' = NoneDf
            /\ pc' = "read_file_return"
            /\ UNCHANGED <<invoked, exc>>
     ELSE IF lower(file_path[2]) \notin DOMAIN supported_formats
       THEN /\ out' = out \o <<"unsupported_format", "supported_formats">>
            /\ df' = NoneDf
            /\ pc' = "read_file_return"
            /\ UNCHANGED <<invoked, exc>>
     ELSE LET h == supported_formats[lower(file_path[2])]
          IN /\ invoked' = Append(invoked, h)
             /\ IF h = "_read_txt"
                  THEN /\ out' = Append(out, "reading")
                       /\ pc' = "_read_txt"
                       /\ UNCHANGED <<df, exc>>
                  ELSE LET o == caught(call_handler(h, fs, kwargs))
                       IN /\ out' = out \o <<"reading", o.msg>>
                          /\ df' = o.df
                          /\ exc' = o.exc
                          /\ pc' = IF o.exc # NoExc THEN "raised" ELSE "read_file_return"
  /\ UNCHANGED <<session_vars, llm_vars, returned, entry, argv, file_path, fs, kwargs, report_type, questions, tried, results,
                 requests, inflight, health, charts, report_file>>

_read_txt_try_propagating ==
  /\ pc = "_read_txt"
  /\ Len(tried) < Len(separators)
  /\ LET sep == separators[Len(tried) + 1]
         r == read_csv(fs.content, sep, kwargs)
     IN /\ tried' = Append(tried, sep)
        /\ IF r.raised
             THEN /\ df' = NoneDf
                  /\ out' = Append(out, "read_failed")
                  /\ pc' = "read_file_return"
             ELSE IF Len(r.df.columns) > 1
               THEN /\ df' = r.df
                    /\ out' = Append(out, "read_ok")
                    /\ pc' = "read_file_return"
               ELSE UNCHANGED <<df, out, pc>>
  /\ UNCHANGED <<session_vars, llm_vars, returned, entry, argv, file_path, fs, kwargs, report_type, questions, invoked,
                 results, requests, inflight, health, charts, report_file, exc>>

\* _read_txt: one pass of "for sep in separators: try ... except: continue"
_read_txt_try ==
  /\ pc = "_read_txt"
  /\ Len(tried) < Len(separators)
  /\ LET sep == separators[Len(tried) + 1]
         r == read_csv(fs.content, sep, kwargs)
     IN /\ tried' = Append(tried, sep)
        /\ IF accepts(r)
             THEN /\ df' = r.df
                  /\ out' = Append(out, "read_ok")
                  /\ pc' = "read_file_return"
             ELSE UNCHANGED <<df, out, pc>>
  /\ UNCHANGED <<session_vars, llm_vars, returned, entry, argv, file_path, fs, kwargs, report_type, questions, invoked, results, requests,
                 inflight, health, charts, report_file, exc>>

\* _read_txt after the loop: read by lines; an exception here is caught by
\* read_file's "except Exception", which prints and returns None
_read_txt_fallback ==
  /\ pc = "_read_txt"
  /\ Len(tried) = Len(separators)
  /\ LET o == caught(read_lines_frame(fs.content))
     IN /\ df' = o.df
        /\ out' = Append(out, o.msg)
        /\ exc' = o.exc
        /\ pc' = IF o.exc # NoExc THEN "raised" ELSE "read_file_return"
  /\ UNCHANGED <<session_vars, llm_vars, returned, entry, argv, file_path, fs, kwargs, report_type, questions, invoked, tried,
                 results, requests, inflight, health, charts, report_file>>

(***************************** ReportTemplateCatalog ************************)
REPORT_TEMPLATES_with_custom ==
  [basic |-> <<"basic: statistics">>, quality |-> <<"quality: assessment">>,
   business |-> <<"business: dashboard">>, statistical |-> <<"statistical: descriptive">>,
   predictive |-> <<"predictive: forecast">>, correlation |-> <<"correlation: matrix">>,
   anomaly |-> <<"anomaly: detection">>, comprehensive |-> <<"comprehensive: report">>,
   custom |-> <<>>]
\* analyze_advanced.py: REPORT_TEMPLATES (each question text abridged to a token)
REPORT_TEMPLATES ==
  [basic |-> <<"basic: statistics", "basic: trends", "basic: anomalies", "basic: insights">>,
   quality |-> <<"quality: assessment", "quality: issues", "quality: credibility",
                 "quality: source stability">>,
   business |-> <<"business: dashboard", "business: trends", "business: insights",
                  "business: decision support">>,
   statistical |-> <<"statistical: descriptive", "statistical: distribution",
                     "statistical: hypothesis tests", "statistical: confidence intervals">>,
   predictive |-> <<"predictive: forecast", "predictive: seasonality", "predictive: model",
                    "predictive: risk">>,
   correlation |-> <<"correlation: matrix", "correlation: pairs", "correlation: multivariate",
                     "correlation: feature selection">>,
   anomaly |-> <<"anomaly: detection", "anomaly: distribution", "anomaly: impact",
                 "anomaly: handling">>,
   comprehensive |-> <<"comprehensive: report", "comprehensive: exploration",
                       "comprehensive: data story", "comprehensive: pipeline">>]

\* analyze_file: the questions used when the caller passes questions=None
default_questions ==
  <<"default: data quality", "default: descriptive statistics", "default: trends",
    "default: correlation matrix", "default: business dashboard", "default: outliers",
    "default: distribution", "default: prediction">>

\* str.upper() on the report types
upper(s) ==
  CASE s = "basic" -> "BASIC"
    [] s = "quality" -> "QUALITY"
    [] s = "business" -> "BUSINESS"
    [] s = "statistical" -> "STATISTICAL"
    [] s = "predictive" -> "PREDICTIVE"
    [] s = "correlation" -> "CORRELATION"
    [] s = "anomaly" -> "ANOMALY"
    [] s = "comprehensive" -> "COMPREHENSIVE"
    [] s = "custom" -> "CUSTOM"
    [] OTHER -> s

\* list(REPORT_TEMPLATES.keys()): the names, in the order the dict literal gives them
template_names ==
  <<"basic", "quality", "business", "statistical", "predictive", "correlation", "anomaly",
    "comprehensive">>

HelpFlags == {<<"-h", "">>, <<"--help", "">>, <<"help", "">>}
List(qs) == [given |-> TRUE, list |-> qs]

custom_questions_or_comprehensive(args) ==
  IF Len(args) > 3 THEN SubSeq(args, 4, Len(args)) ELSE REPORT_TEMPLATES.comprehensive
\* main: custom_questions = sys.argv[3:] if len(sys.argv) > 3 else None
\* (None and the empty list are both "not custom_questions")
custom_questions(args) == IF Len(args) > 3 THEN SubSeq(args, 4, Len(args)) ELSE <<>>

unknown_report_type_unlisted(t) == <<"unknown_report_type", t>>
\* main: the two lines printed for a report type that is not a key of REPORT_TEMPLATES
unknown_report_type(t) == <<"unknown_report_type", t, "available_types">> \o template_names

\* main: the report type when none is given on the command line
default_report_type == "comprehensive"

(***************************** analyze_advanced.main ************************)
\* main, from the argument checks to the banner: help, the report type and its
\* questions
main_args ==
  /\ pc = "main"
  /\ IF Len(argv) < 2 \/ argv[2] \in HelpFlags
       THEN /\ out' = Append(out, "help")
            /\ pc' = "done"
            /\ UNCHANGED <<file_path, report_type, questions>>
     ELSE /\ file_path' = argv[2]
          /\ IF Len(argv) >= 3
               THEN IF lower(argv[3]) = "custom"
                      THEN IF custom_questions(argv) # <<>>
                             THEN /\ report_type' = "custom"
                                  /\ questions' = List(custom_questions(argv))
                                  /\ out' = Append(out, "banner")
                                  /\ pc' = "health_check"
                             ELSE /\ report_type' = "custom"
                                  /\ out' = out \o <<"custom_needs_questions", "example">>
                                  /\ pc' = "done"
                                  /\ UNCHANGED questions
                    ELSE IF lower(argv[3]) \in DOMAIN REPORT_TEMPLATES
                      THEN /\ report_type' = lower(argv[3])
                           /\ questions' = List(REPORT_TEMPLATES[lower(argv[3])])
                           /\ out' = Append(out, "banner")
                           /\ pc' = "health_check"
                    ELSE /\ report_type' = lower(argv[3])
                         /\ out' = out \o unknown_report_type(lower(argv[3]))
                         /\ pc' = "done"
                         /\ UNCHANGED questions
               ELSE /\ report_type' = default_report_type
                    /\ questions' = List(REPORT_TEMPLATES[default_report_type])
                    /\ out' = Append(out, "banner")
                    /\ pc' = "health_check"
  /\ UNCHANGED <<session_vars, llm_vars, returned, entry, argv, fs, kwargs, df, invoked, tried, results, requests, inflight,
                 health, charts, report_file, exc>>

\* what GET /api/tags can come to: an exception (refused, timeout, a body that is
\* not JSON), a status other than 200, or 200 with a list of models
Tags(status, models, e) == [status |-> status, models |-> models, exception |-> e]
TagsOutcomes == {Tags(NoArg, <<>>, "ConnectionError"), Tags("500", <<>>, NoExc),
                 Tags("200", <<>>, NoExc), Tags("200", <<"codellama:7b">>, NoExc)}

health_check_ignoring_models ==
  /\ pc = "health_check"
  /\ \E r \in TagsOutcomes :
       /\ health' = Append(health, r)
       /\ IF r.exception # NoExc
            THEN out' = Append(out, "cannot_connect") /\ pc' = "done"
          ELSE IF r.status # "200"
            THEN out' = Append(out, "service_not_running") /\ pc' = "done"
          ELSE out' = out /\ pc' = "read_file"
  /\ UNCHANGED <<session_vars, llm_vars, returned, entry, argv, file_path, fs, kwargs,
                 report_type, questions, df, invoked, tried, results, requests, inflight,
                 charts, report_file, exc>>

\* both command-line programs check the service with the same code
\* (analyze_advanced.py 147-162, analyze_file.py 37-52)
\* main: the check of the Ollama service, and on success the call of analyze_file
health_check ==
  /\ pc = "health_check"
  /\ \E r \in TagsOutcomes :
       /\ health' = Append(health, r)
       /\ IF r.exception # NoExc
            THEN out' = Append(out, "cannot_connect") /\ pc' = "done"
          ELSE IF r.status # "200"
            THEN out' = Append(out, "service_not_running") /\ pc' = "done"
          ELSE IF r.models = <<>>
            THEN out' = Append(out, "no_model") /\ pc' = "done"
          ELSE out' = out /\ pc' = "read_file"
  /\ UNCHANGED <<session_vars, llm_vars, returned, entry, argv, file_path, fs, kwargs, report_type, questions, df, invoked,
                 tried, results, requests, inflight, charts, report_file, exc>>

(***************************** text generation ******************************)
\* what POST /api/generate can come to: an exception (refused, timeout), a status
\* other than 200, or 200 with a JSON body that has a 'response' field or not
Reply(status, has_response, response, e) ==
  [status |-> status, has_response |-> has_response, response |-> response, exception |-> e]
ChatOutcomes == {Reply("200", TRUE, <<"r1">>, NoExc), Reply("500", FALSE, <<>>, NoExc),
                 Reply(NoArg, FALSE, <<>>, "ReadTimeout")}

\* chat_with_llm, from the response on: the string it returns
chat_with_llm(r) ==
  IF r.exception # NoExc THEN <<"request failed: ", r.exception>>
  ELSE IF r.status = "200" THEN (IF r.has_response THEN r.response ELSE <<>>)
  ELSE <<"error: HTTP ", r.status>>

\* OllamaLLM._generate_text of pandasai_ollama_integration.py: the string it returns
_generate_text(r) ==
  IF r.exception # NoExc THEN <<"request failed: ", r.exception>>
  ELSE IF r.status = "200" THEN (IF r.has_response THEN r.response ELSE <<>>)
  ELSE <<"error: HTTP ", r.status>>

\* OllamaLLM.generate of data_analysis_demo.py: the string it returns
generate(r) ==
  IF r.exception # NoExc THEN <<"request failed: ", r.exception>>
  ELSE IF r.status = "200" THEN (IF r.has_response THEN r.response ELSE <<>>)
  ELSE <<"error: ", r.status>>

\* what POST /api/generate can come to, in full: besides ChatOutcomes, a 200 whose
\* JSON object has no 'response' field or an empty one, a 200 whose body is not
\* JSON (response.json() raises inside the try block) or is JSON but no object
\* (.get raises), other statuses, a refused connection
PostOutcomes ==
  ChatOutcomes \cup
  {Reply("200", FALSE, <<>>, NoExc), Reply("200", TRUE, <<>>, NoExc),
   Reply("200", TRUE, <<"r1", "r2">>, NoExc),
   Reply("200", FALSE, <<>>, "JSONDecodeError"), Reply("200", FALSE, <<>>, "AttributeError"),
   Reply("404", FALSE, <<>>, NoExc), Reply(NoArg, FALSE, <<>>, "ConnectionError")}

call_llm_narrow_except(impl, r) ==
  IF r.exception \in {"JSONDecodeError", "AttributeError"}
    THEN [kind |-> "raise", text |-> <<r.exception>>]
    ELSE [kind |-> "str", text |-> chat_with_llm(r)]
\* one call of a wrapper: requests.post, the status test and response.json() are
\* all inside "try: ... except Exception as e: return ...", so whatever they
\* raise the call returns a string
call_llm(impl, r) ==
  [kind |-> "str",
   text |-> CASE impl = "chat_with_llm" -> chat_with_llm(r)
              [] impl = "_generate_text" -> _generate_text(r)
              [] impl = "generate" -> generate(r)]

\* a wrapper is called with a prompt and the POST ends
post ==
  /\ pc = "post"
  /\ \E r \in PostOutcomes :
       /\ requests' = Append(requests, [prompt |-> inflight.prompt, outcome |-> r])
       /\ reply' = call_llm(entry, r)
       /\ exc' = IF call_llm(entry, r).kind = "raise" THEN r.exception ELSE NoExc
       /\ pc' = IF call_llm(entry, r).kind = "raise" THEN "raised" ELSE "post_return"
  /\ inflight' = NoRequest
  /\ UNCHANGED <<session_history, chat_log, llm_vars, returned, entry, argv, file_path, fs,
                 kwargs, report_type, questions, df, invoked, tried, out, results, health,
                 charts, report_file>>

(***************************** AnalysisOrchestrator *************************)
Min(a, b) == IF a <= b THEN a ELSE b
shape(d) == <<Len(d.rows), Len(d.columns)>>
\* df.head(): the first five rows
head(d) == SubSeq(d.rows, 1, Min(5, Len(d.rows)))
\* df.describe(): per column statistics (here the count); pandas raises
\* ValueError("Cannot describe a DataFrame without columns") on a frame without columns
describe(d) ==
  IF Len(d.columns) = 0 THEN [raised |-> TRUE, exc |-> "ValueError", stats |-> <<>>]
  ELSE [raised |-> FALSE, exc |-> NoExc, stats |-> [c \in 1..Len(d.columns) |-> Len(d.rows)]]

prompt_with_history(path, d, question) ==
  [path |-> path, shape |-> shape(d), columns |-> d.columns, head |-> head(d),
   describe |-> describe(d).stats, question |-> question, history |-> Len(requests)]
\* analyze_file: the prompt of one question
prompt(path, d, question) ==
  [path |-> path, shape |-> shape(d), columns |-> d.columns, head |-> head(d),
   describe |-> describe(d).stats, question |-> question]

error_result_with_analyses == [error |-> "cannot read file", analyses |-> <<>>]
\* analyze_file: return {"error": ...} when read_file returned None
error_result == [error |-> "cannot read file"]

questions_or_default_if_empty(q) ==
  IF q.given /\ q.list # <<>> THEN q ELSE [given |-> q.given, list |-> default_questions]
\* analyze_file: if questions is None: questions = [the eight default questions]
questions_or_default(q) ==
  IF q.given THEN q ELSE [given |-> FALSE, list |-> default_questions]

\* analyze_file after read_file has returned: the error result, or the default
\* questions, the preview with df.describe(), and the empty results
analyze_file ==
  /\ pc = "read_file_return"
  /\ entry # "read_file"
  /\ IF df = NoneDf
       THEN /\ results' = error_result
            /\ returned' = Append(returned, results')
            /\ pc' = "analyze_file_return"
            /\ UNCHANGED <<questions, out, exc>>
     ELSE /\ questions' = questions_or_default(questions)
          /\ IF describe(df).raised
               THEN /\ out' = out \o <<"preview", "dtypes">>
                    /\ exc' = describe(df).exc
                    /\ pc' = "raised"
                    /\ UNCHANGED <<results, returned>>
               ELSE /\ out' = out \o <<"preview", "dtypes", "describe">>
                    /\ results' = [file_info |-> [path |-> file_path, shape |-> shape(df),
                                                  columns |-> df.columns],
                                   analyses |-> <<>>]
                    /\ pc' = "questions"
                    /\ UNCHANGED <<exc, returned>>
  /\ UNCHANGED <<session_vars, llm_vars, entry, argv, file_path, fs, kwargs, report_type, df, invoked, tried,
                 requests, inflight, health, charts, report_file>>

next_question_reversed(qs, done) == qs[Len(qs) - done]
\* for i, question in enumerate(questions, 1): the question after `done` iterations
next_question(qs, done) == qs[done + 1]

ask_pipelined ==
  /\ pc \in {"questions", "chat_with_llm"}
  /\ Len(results.analyses) + (IF pc = "chat_with_llm" THEN 1 ELSE 0) < Len(questions.list)
  /\ ~describe(df).raised
  /\ LET question == next_question(questions.list,
                                   Len(results.analyses) + (IF pc = "chat_with_llm" THEN 1 ELSE 0))
     IN inflight' = [kind |-> "POST", prompt |-> prompt(file_path, df, question)]
  /\ out' = Append(out, "question")
  /\ pc' = "chat_with_llm"
  /\ UNCHANGED <<session_vars, llm_vars, returned, entry, argv, file_path, fs, kwargs, report_type, questions, df, invoked,
                 tried, results, requests, health, charts, report_file, exc>>

\* the loop body up to requests.post: the prompt of the next question is built and sent
ask ==
  /\ pc = "questions"
  /\ Len(results.analyses) < Len(questions.list)
  /\ LET question == next_question(questions.list, Len(results.analyses))
     IN IF describe(df).raised
          THEN /\ exc' = describe(df).exc
               /\ pc' = "raised"
               /\ UNCHANGED <<inflight, out>>
          ELSE /\ inflight' = [kind |-> "POST", prompt |-> prompt(file_path, df, question)]
               /\ out' = Append(out, "question")
               /\ pc' = "chat_with_llm"
               /\ UNCHANGED exc
  /\ UNCHANGED <<session_vars, llm_vars, returned, entry, argv, file_path, fs, kwargs, report_type, questions, df, invoked,
                 tried, results, requests, health, charts, report_file>>

answer_retrying ==
  /\ pc = "chat_with_llm"
  /\ \E r \in ChatOutcomes :
       /\ requests' = Append(requests, [prompt |-> inflight.prompt, outcome |-> r])
       /\ IF (r.exception # NoExc \/ r.status # "200")
               /\ (requests = <<>> \/ requests[Len(requests)].prompt # inflight.prompt)
            THEN UNCHANGED results
            ELSE results' = [results EXCEPT !.analyses =
                               Append(@, [question |-> inflight.prompt.question,
                                          answer |-> chat_with_llm(r)])]
  /\ inflight' = NoRequest
  /\ out' = Append(out, "answer")
  /\ pc' = "questions"
  /\ UNCHANGED <<session_vars, llm_vars, returned, entry, argv, file_path, fs, kwargs, report_type, questions, df,
                 invoked, tried, health, charts, report_file, exc>>

answer_raising ==
  /\ pc = "chat_with_llm"
  /\ \E r \in ChatOutcomes :
       /\ requests' = Append(requests, [prompt |-> inflight.prompt, outcome |-> r])
       /\ IF r.exception # NoExc
            THEN /\ exc' = r.exception
                 /\ pc' = "raised"
                 /\ UNCHANGED results
            ELSE /\ results' = [results EXCEPT !.analyses =
                                  Append(@, [question |-> inflight.prompt.question,
                                             answer |-> chat_with_llm(r)])]
                 /\ pc' = "questions"
                 /\ UNCHANGED exc
  /\ inflight' = NoRequest
  /\ out' = Append(out, "answer")
  /\ UNCHANGED <<session_vars, llm_vars, returned, entry, argv, file_path, fs, kwargs, report_type, questions, df, invoked,
                 tried, health, charts, report_file>>

\* the POST ends (response, error status or exception); chat_with_llm returns the
\* answer and the loop body appends the entry
answer ==
  /\ pc = "chat_with_llm"
  /\ \E r \in ChatOutcomes :
       /\ requests' = Append(requests, [prompt |-> inflight.prompt, outcome |-> r])
       /\ results' = [results EXCEPT !.analyses =
                        Append(@, [question |-> inflight.prompt.question,
                                   answer |-> chat_with_llm(r)])]
  /\ inflight' = NoRequest
  /\ out' = Append(out, "answer")
  /\ pc' = "questions"
  /\ UNCHANGED <<session_vars, llm_vars, returned, entry, argv, file_path, fs, kwargs, report_type, questions, df, invoked,
                 tried, health, charts, report_file, exc>>

\* what generate_charts returns: the file name of the saved figure, or None when
\* anything in it raised
NonePath == <<>>
chart_filename(path) == <<"analysis_", path[1], "_", "timestamp", ".png">>

generate_charts_fatal ==
  /\ pc = "questions"
  /\ Len(results.analyses) = Len(questions.list)
  /\ \E chart_path \in {NonePath, chart_filename(file_path)} :
       /\ charts' = Append(charts, [path |-> file_path, df |-> df, result |-> chart_path])
       /\ IF chart_path = NonePath
            THEN /\ exc' = "ChartError"
                 /\ pc' = "raised"
                 /\ UNCHANGED <<results, returned, out>>
            ELSE /\ results' = [file_info |-> results.file_info, analyses |-> results.analyses,
                                chart_path |-> chart_path]
                 /\ returned' = Append(returned, results')
                 /\ out' = Append(out, "chart_saved")
                 /\ pc' = "analyze_file_return"
                 /\ UNCHANGED exc
  /\ UNCHANGED <<session_vars, llm_vars, entry, argv, file_path, fs, kwargs, report_type, questions, df, invoked,
                 tried, requests, inflight, health, report_file>>

loop_finished_early(qs, analyses) == Len(analyses) >= 1
\* for i, question in enumerate(questions, 1): the loop has run through the list
loop_finished(qs, analyses) == Len(analyses) = Len(qs)

after_generate_charts_converted(d) == DataFrame(d.columns, <<>>)
\* generate_charts: the table it leaves behind. It reads df through selections
\* and works on the copy df_temp = df[[...]].dropna(); it assigns nothing into df
after_generate_charts(d) == d

\* after the loop: generate_charts, results["chart_path"], return results
generate_charts ==
  /\ pc = "questions"
  /\ loop_finished(questions.list, results.analyses)
  /\ \E chart_path \in {NonePath, chart_filename(file_path)} :
       /\ charts' = Append(charts, [path |-> file_path, df |-> df, result |-> chart_path])
       /\ results' = [file_info |-> results.file_info, analyses |-> results.analyses,
                      chart_path |-> chart_path]
       /\ out' = Append(out, IF chart_path = NonePath THEN "chart_failed" ELSE "chart_saved")
  /\ returned' = Append(returned, results')
  /\ df' = after_generate_charts(df)
  /\ pc' = "analyze_file_return"
  /\ UNCHANGED <<session_vars, llm_vars, entry, argv, file_path, fs, kwargs, report_type, questions, invoked,
                 tried, requests, inflight, health, report_file, exc>>

(***************************** ReportWriter *********************************)
\* main: the completion message, and the chart message when a chart was saved
done_messages(res) ==
  IF "chart_path" \in DOMAIN res /\ res.chart_path # NonePath
    THEN <<"analysis_done", "chart_saved_at">>
    ELSE <<"analysis_done">>

report_text_from_zero(rtype, path, analyses) ==
  [header |-> <<upper(rtype), path>>,
   sections |-> [i \in 1..Len(analyses) |->
                   [number |-> i - 1, question |-> analyses[i].question,
                    answer |-> analyses[i].answer, rule |-> "----"]]]
\* main: the text written to the report file
report_text(rtype, path, analyses) ==
  [header |-> <<upper(rtype), path>>,
   sections |-> [i \in 1..Len(analyses) |->
                   [number |-> i, question |-> analyses[i].question,
                    answer |-> analyses[i].answer, rule |-> "----"]]]

main_result_swallowing_io ==
  /\ pc = "analyze_file_return"
  /\ entry = "main"
  /\ IF "error" \in DOMAIN results
       THEN /\ out' = Append(out, "analysis_failed")
            /\ UNCHANGED report_file
     ELSE \E io \in {"ok", "OSError"} :
            /\ report_file' = IF io = "ok"
                                THEN [kind |-> "file",
                                      name |-> <<"report_", report_type, "_", file_path[1], ".txt">>,
                                      text |-> report_text(report_type, file_path, results.analyses)]
                                ELSE NoFile
            /\ out' = out \o done_messages(results) \o <<"report_saved">>
  /\ pc' = "done"
  /\ UNCHANGED <<session_vars, llm_vars, returned, entry, argv, file_path, fs, kwargs, report_type, questions, df,
                 invoked, tried, results, requests, inflight, health, charts, exc>>

main_result_ignoring_error ==
  /\ pc = "analyze_file_return"
  /\ entry = "main"
  /\ LET analyses == IF "error" \in DOMAIN results THEN <<>> ELSE results.analyses
     IN \E io \in {"ok", "OSError"} :
            IF io = "ok"
              THEN /\ report_file' = [kind |-> "file",
                                      name |-> <<"report_", report_type, "_", file_path[1], ".txt">>,
                                      text |-> report_text(report_type, file_path, analyses)]
                   /\ out' = out \o done_messages(results) \o <<"report_saved">>
                   /\ pc' = "done"
                   /\ UNCHANGED exc
              ELSE /\ exc' = io
                   /\ out' = out \o done_messages(results)
                   /\ pc' = "raised"
                   /\ UNCHANGED report_file
  /\ UNCHANGED <<session_vars, llm_vars, returned, entry, argv, file_path, fs, kwargs, report_type, questions, df, invoked,
                 tried, results, requests, inflight, health, charts>>

\* main after analyze_file has returned: the failure message, or the completion
\* messages and the report file; open() failing raises out of main
main_result ==
  /\ pc = "analyze_file_return"
  /\ entry = "main"
  /\ IF "error" \in DOMAIN results
       THEN /\ out' = Append(out, "analysis_failed")
            /\ pc' = "done"
            /\ UNCHANGED <<report_file, exc>>
     ELSE IF results.analyses = <<>>
       THEN /\ out' = out \o done_messages(results)
            /\ pc' = "done"
            /\ UNCHANGED <<report_file, exc>>
     ELSE \E io \in {"ok", "OSError"} :
            IF io = "ok"
              THEN /\ report_file' = [kind |-> "file",
                                      name |-> <<"report_", report_type, "_", file_path[1], ".txt">>,
                                      text |-> report_text(report_type, file_path, results.analyses)]
                   /\ out' = out \o done_messages(results) \o <<"report_saved">>
                   /\ pc' = "done"
                   /\ UNCHANGED exc
              ELSE /\ exc' = io
                   /\ out' = out \o done_messages(results)
                   /\ pc' = "raised"
                   /\ UNCHANGED report_file
  /\ UNCHANGED <<session_vars, llm_vars, returned, entry, argv, file_path, fs, kwargs, report_type, questions, df, invoked,
                 tried, results, requests, inflight, health, charts>>

(***************************** analyze_file.py main *************************)
\* main of analyze_file.py, from the argument check to the banner: the path and
\* the questions on the command line, None when there is none
analyze_file_py_args ==
  /\ pc = "analyze_file.py"
  /\ IF Len(argv) < 2
       THEN /\ out' = Append(out, "usage")
            /\ pc' = "done"
            /\ UNCHANGED <<file_path, questions>>
       ELSE /\ file_path' = argv[2]
            /\ questions' = IF Len(argv) > 2 THEN List(SubSeq(argv, 3, Len(argv)))
                            ELSE [given |-> FALSE, list |-> <<>>]
            /\ out' = Append(out, "banner")
            /\ pc' = "health_check"
  /\ UNCHANGED <<session_vars, llm_vars, returned, entry, argv, fs, kwargs, report_type, df,
                 invoked, tried, results, requests, inflight, health, charts, report_file, exc>>

\* main of analyze_file.py after analyze_file has returned: the failure message
\* or the completion messages; it writes no report file
analyze_file_py_result ==
  /\ pc = "analyze_file_return"
  /\ entry = "analyze_file.py"
  /\ out' = IF "error" \in DOMAIN results THEN Append(out, "analysis_failed")
            ELSE out \o done_messages(results)
  /\ pc' = "done"
  /\ UNCHANGED <<session_vars, llm_vars, returned, entry, argv, file_path, fs, kwargs,
                 report_type, questions, df, invoked, tried, results, requests, inflight,
                 health, charts, report_file, exc>>

(***************************** initial states *******************************)
NoKwargs == [sep |-> NoArg, encoding |-> NoArg]
NoQuestions == [given |-> FALSE, list |-> <<>>]
NoResults == <<>>
Unparsed == Raise("NotApplicable")

\* everything a run starts with besides its inputs
Fresh ==
  /\ df = NoneDf
  /\ invoked = <<>>
  /\ tried = <<>>
  /\ out = <<>>
  /\ results = NoResults
  /\ requests = <<>>
  /\ inflight = NoRequest
  /\ health = <<>>
  /\ charts = <<>>
  /\ report_file = NoFile
  /\ exc = NoExc
  /\ returned = <<>>
  /\ reply = NoReply
  /\ session_history = <<>>
  /\ chat_log = <<>>
  /\ environ = NoEnviron
  /\ services = NoServices
  /\ probed = <<>>
  /\ llm = NoLlm

\* read_file(path, **kwargs) called on an existing .txt file of any content
TxtInit ==
  /\ entry = "read_file"
  /\ argv = <<>>
  /\ file_path \in {<<"notes", ".txt">>, <<"NOTES", ".TXT">>}
  /\ fs \in {File(TRUE, c, Unparsed) : c \in StringsUpTo(MaxChars)}
  /\ kwargs \in KwargsSet
  /\ report_type = NoArg
  /\ questions = NoQuestions
  /\ pc = "read_file"
  /\ Fresh

\* the paths and files the runs of the pipeline are given
Suffixes == {".csv", ".CSV", ".tsv", ".txt", ".TXT", ".xlsx", ".xls", ".json", ".parquet",
             ".dat", ""}
TextSuffixes == {".csv", ".tsv", ".txt"}
Paths == {<<"data", x>> : x \in Suffixes}
SampleContents == {<<>>, <<"a">>, <<"a", ",", "a">>, <<"a", "\t", "a">>, <<InvalidByte>>}
Missing == File(FALSE, <<>>, Unparsed)
FilesAt(path) ==
  {Missing} \cup
  (IF lower(path[2]) \in TextSuffixes THEN {File(TRUE, c, Unparsed) : c \in SampleContents}
   ELSE IF lower(path[2]) \in DOMAIN supported_formats THEN {File(TRUE, <<>>, p) : p \in ParsedSet}
   ELSE {File(TRUE, <<>>, Unparsed)})

CustomQuestions == {"q1", "q2"}
RECURSIVE ListsUpTo(_)
ListsUpTo(n) ==
  IF n = 0 THEN {<<>>}
  ELSE LET shorter == ListsUpTo(n - 1)
       IN shorter \cup {Append(l, q) : l \in {t \in shorter : Len(t) = n - 1},
                                        q \in CustomQuestions}

Program == "analyze_advanced.py"
ReportTypeArgs == DOMAIN REPORT_TEMPLATES \cup {"QUALITY", "custom", "Custom", "nonexistent"}

\* python analyze_advanced.py ...: every file with one custom question, and a
\* CSV file with every form of the arguments
MainInit ==
  /\ entry = "main"
  /\ \/ /\ argv \in {<<Program, p, "custom", "q1">> : p \in Paths}
        /\ fs \in FilesAt(argv[2])
     \/ /\ argv \in {<<Program>>, <<Program, <<"-h", "">> >>, <<Program, <<"data", ".csv">> >>}
                   \cup {<<Program, <<"data", ".csv">>, t>> : t \in ReportTypeArgs}
                   \cup {<<Program, <<"data", ".csv">>, "custom">> \o l :
                           l \in ListsUpTo(MaxQuestions)}
        /\ fs \in {Missing, File(TRUE, <<"a", ",", "a">>, Unparsed)}
  /\ file_path = <<"", "">>
  /\ kwargs = NoKwargs
  /\ report_type = NoArg
  /\ questions = NoQuestions
  /\ pc = "main"
  /\ Fresh

\* FileDataAnalyzer().analyze_file(path, questions, **read_kwargs) called directly
ApiInit ==
  /\ entry = "analyze_file"
  /\ argv = <<>>
  /\ file_path \in Paths
  /\ fs \in FilesAt(file_path)
  /\ kwargs \in KwargsSet
  /\ report_type = NoArg
  /\ questions \in {List(l) : l \in ListsUpTo(MaxQuestions)}
  /\ pc = "read_file"
  /\ Fresh

\* FileDataAnalyzer().analyze_file(path): questions left at its default, None
DefaultInit ==
  /\ entry = "analyze_file"
  /\ argv = <<>>
  /\ file_path = <<"data", ".csv">>
  /\ fs \in {Missing, File(TRUE, <<"a", ",", "a">>, Unparsed)}
  /\ kwargs = NoKwargs
  /\ report_type = NoArg
  /\ questions = NoQuestions
  /\ pc = "read_file"
  /\ Fresh

SimpleProgram == "analyze_file.py"

\* python analyze_file.py ...: no argument, the path alone, the path and questions
AnalyzeFilePyInit ==
  /\ entry = "analyze_file.py"
  /\ argv \in {<<SimpleProgram>>} \cup
              {<<SimpleProgram, <<"data", ".csv">> >> \o l : l \in ListsUpTo(MaxQuestions)}
  /\ fs \in {Missing, File(TRUE, <<"a", ",", "a">>, Unparsed)}
  /\ file_path = <<"", "">>
  /\ kwargs = NoKwargs
  /\ report_type = NoArg
  /\ questions = NoQuestions
  /\ pc = "analyze_file.py"
  /\ Fresh

Init == MainInit \/ ApiInit \/ DefaultInit

Next ==
  \/ main_args
  \/ health_check
  \/ read_file
  \/ _read_txt_try
  \/ _read_txt_fallback
  \/ analyze_file
  \/ ask
  \/ answer
  \/ generate_charts
  \/ main_result

Spec == Init /\ [][Next]_vars

\* the two command-line programs
CliInit == MainInit \/ AnalyzeFilePyInit

CliNext ==
  \/ main_args
  \/ analyze_file_py_args
  \/ health_check
  \/ read_file
  \/ _read_txt_try
  \/ _read_txt_fallback
  \/ analyze_file
  \/ ask
  \/ answer
  \/ generate_charts
  \/ main_result
  \/ analyze_file_py_result

CliSpec == CliInit /\ [][CliNext]_vars

\* chat_with_llm(prompt), _generate_text(prompt) or generate(prompt) called once
\* with the prompt of some question about a small table
ChatInit ==
  /\ entry \in {"chat_with_llm", "_generate_text", "generate"}
  /\ argv = <<>>
  /\ file_path = <<"data", ".csv">>
  /\ fs = Missing
  /\ kwargs = NoKwargs
  /\ report_type = NoArg
  /\ questions = NoQuestions
  /\ pc = "post"
  /\ df = SmallFrame
  /\ inflight \in {[kind |-> "POST", prompt |-> prompt(file_path, SmallFrame, q)] :
                     q \in CustomQuestions \cup {default_questions[k] : k \in 1..Len(default_questions)}}
  /\ invoked = <<>> /\ tried = <<>> /\ out = <<>> /\ results = NoResults
  /\ requests = <<>> /\ health = <<>> /\ charts = <<>> /\ report_file = NoFile
  /\ exc = NoExc /\ returned = <<>>
  /\ reply = NoReply /\ session_history = <<>> /\ chat_log = <<>>
  /\ environ = NoEnviron /\ services = NoServices /\ probed = <<>> /\ llm = NoLlm

ChatNext == post

ChatSpec == ChatInit /\ [][ChatNext]_vars

(***************************** free_ai_config.py ****************************)
\* what a setup function comes to: None, a client, or an exception it lets through
None == [kind |-> "None"]
Client(name, arg) == [kind |-> "llm", name |-> name, arg |-> arg]
Raised(e) == [kind |-> "raise", exc |-> e]

\* "if x:" on what os.getenv returned: unset (None) and the empty string are false
truthy(v) == v \notin {NoArg, ""}

\* setup_openai: None without a key, else the OpenAI client, whose constructor
\* is in no try block
setup_openai(env, svc) ==
  IF ~truthy(env.OPENAI_API_KEY) THEN None
  ELSE IF svc.OpenAI = "raises" THEN Raised("Exception")
  ELSE Client("OpenAI", env.OPENAI_API_KEY)

\* setup_ollama: the import of Ollama, GET /api/tags, and the client of the
\* first listed model; only ImportError and requests' ConnectionError are caught
setup_ollama(svc) ==
  IF svc.Ollama = "ImportError" THEN None
  ELSE IF svc.tags.exception = "ConnectionError" THEN None
  ELSE IF svc.tags.exception # NoExc THEN Raised(svc.tags.exception)
  ELSE IF svc.tags.status # "200" THEN None
  ELSE IF svc.tags.models = <<>> THEN None
  ELSE Client("Ollama", svc.tags.models[1])

\* setup_litellm: the import of LiteLLM, then the client when
\* HUGGINGFACE_API_TOKEN is set and not empty
setup_litellm(env, svc) ==
  IF svc.LiteLLM = "ImportError" THEN None
  ELSE IF truthy(env.HUGGINGFACE_API_TOKEN) THEN Client("LiteLLM", env.HUGGINGFACE_API_TOKEN)
  ELSE None

openai_wanted_always(env) == TRUE
\* get_free_llm: "if os.getenv('OPENAI_API_KEY'):" before setup_openai is called
openai_wanted(env) == truthy(env.OPENAI_API_KEY)

\* get_free_llm, first priority: setup_openai, when the key is there
get_free_llm_openai ==
  /\ pc = "get_free_llm"
  /\ IF openai_wanted(environ)
       THEN LET r == setup_openai(environ, services)
            IN /\ probed' = Append(probed, [name |-> "setup_openai", result |-> r])
               /\ llm' = IF r.kind = "llm" THEN r ELSE llm
               /\ exc' = IF r.kind = "raise" THEN r.exc ELSE exc
               /\ pc' = CASE r.kind = "llm" -> "get_free_llm_return"
                          [] r.kind = "raise" -> "raised"
                          [] OTHER -> "setup_ollama"
       ELSE /\ pc' = "setup_ollama"
            /\ UNCHANGED <<probed, llm, exc>>
  /\ UNCHANGED <<session_vars, environ, services, returned, entry, argv, file_path, fs, kwargs,
                 report_type, questions, df, invoked, tried, out, results, requests,
                 inflight, health, charts, report_file>>

\* get_free_llm, second priority: setup_ollama
get_free_llm_ollama ==
  /\ pc = "setup_ollama"
  /\ LET r == setup_ollama(services)
     IN /\ probed' = Append(probed, [name |-> "setup_ollama", result |-> r])
        /\ health' = IF services.Ollama = "ok" THEN Append(health, services.tags) ELSE health
        /\ llm' = IF r.kind = "llm" THEN r ELSE llm
        /\ exc' = IF r.kind = "raise" THEN r.exc ELSE exc
        /\ pc' = CASE r.kind = "llm" -> "get_free_llm_return"
                   [] r.kind = "raise" -> "raised"
                   [] OTHER -> "setup_litellm"
  /\ UNCHANGED <<session_vars, environ, services, returned, entry, argv, file_path, fs, kwargs,
                 report_type, questions, df, invoked, tried, out, results, requests,
                 inflight, charts, report_file>>

\* get_free_llm, third priority: setup_litellm, and the setup guide and None
\* when it has no client either
get_free_llm_litellm ==
  /\ pc = "setup_litellm"
  /\ LET r == setup_litellm(environ, services)
     IN /\ probed' = Append(probed, [name |-> "setup_litellm", result |-> r])
        /\ llm' = IF r.kind = "llm" THEN r ELSE None
        /\ out' = IF r.kind = "llm" THEN out ELSE Append(out, "setup_guide")
        /\ pc' = "get_free_llm_return"
  /\ UNCHANGED <<session_vars, environ, services, returned, entry, argv, file_path, fs, kwargs,
                 report_type, questions, df, invoked, tried, results, requests, inflight,
                 health, charts, report_file, exc>>

\* create_agent_with_free_llm after get_free_llm has returned: an Agent around
\* the client, or the message and None
create_agent_with_free_llm ==
  /\ pc = "get_free_llm_return"
  /\ entry = "create_agent_with_free_llm"
  /\ out' = Append(out, IF llm.kind = "llm" THEN "agent" ELSE "cannot_create_agent")
  /\ pc' = "done"
  /\ UNCHANGED <<session_vars, llm_vars, returned, entry, argv, file_path, fs, kwargs,
                 report_type, questions, df, invoked, tried, results, requests, inflight,
                 health, charts, report_file, exc>>

(***************************** data_chat.py *********************************)
\* what the POST of DataAnalysisChat.chat can come to
SessionOutcomes ==
  {Reply("200", TRUE, <<"r1">>, NoExc), Reply("200", FALSE, <<>>, NoExc),
   Reply("200", FALSE, <<>>, "JSONDecodeError"), Reply("500", FALSE, <<>>, NoExc),
   Reply(NoArg, FALSE, <<>>, "ConnectionError")}

\* DataAnalysisChat.chat: the string it returns
chat_returns(r) ==
  IF r.exception # NoExc THEN <<"connection failed: ", r.exception>>
  ELSE IF r.status = "200" THEN (IF r.has_response THEN r.response ELSE <<>>)
  ELSE <<"request failed: ", r.status>>

chat_appends_always(history, question, r) ==
  Append(history, [question |-> question, answer |-> chat_returns(r)])
\* DataAnalysisChat.chat: session_history after the call; the append is reached
\* only in the 200 branch and only when response.json().get did not raise
chat_appends(history, question, r) ==
  IF r.exception = NoExc /\ r.status = "200"
    THEN Append(history, [question |-> question,
                          answer |-> IF r.has_response THEN r.response ELSE <<>>])
    ELSE history

\* interactive_mode: a question that is no command, answered by chat
chat ==
  /\ pc = "interactive_mode"
  /\ Len(chat_log) < MaxOps
  /\ \E q \in CustomQuestions, r \in SessionOutcomes :
       /\ requests' = Append(requests, [prompt |-> q, outcome |-> r])
       /\ session_history' = chat_appends(session_history, q, r)
       /\ reply' = [kind |-> "str", text |-> chat_returns(r)]
       /\ chat_log' = Append(chat_log, [op |-> "chat", question |-> q, outcome |-> r,
                                        returned |-> chat_returns(r)])
       /\ out' = out \o <<"analysing", "answer">>
  /\ UNCHANGED <<llm_vars, returned, entry, argv, file_path, fs, kwargs, report_type,
                 questions, pc, df, invoked, tried, results, inflight, health, charts,
                 report_file, exc>>

\* interactive_mode: the command 'clear'
clear ==
  /\ pc = "interactive_mode"
  /\ Len(chat_log) < MaxOps
  /\ session_history' = <<>>
  /\ chat_log' = Append(chat_log, [op |-> "clear"])
  /\ out' = Append(out, "history_cleared")
  /\ UNCHANGED <<reply, llm_vars, returned, entry, argv, file_path, fs, kwargs, report_type,
                 questions, pc, df, invoked, tried, results, requests, inflight, health,
                 charts, report_file, exc>>

\* interactive_mode: the command 'history'; show_history only prints
show_history ==
  /\ pc = "interactive_mode"
  /\ Len(chat_log) < MaxOps
  /\ out' = Append(out, IF session_history = <<>> THEN "no_history" ELSE "history")
  /\ chat_log' = Append(chat_log, [op |-> "history"])
  /\ UNCHANGED <<reply, session_history, llm_vars, returned, entry, argv, file_path, fs,
                 kwargs, report_type, questions, pc, df, invoked, tried, results, requests,
                 inflight, health, charts, report_file, exc>>

\* interactive_mode: the command 'exit' (or 'quit') ends the loop
exit ==
  /\ pc = "interactive_mode"
  /\ out' = Append(out, "bye")
  /\ pc' = "done"
  /\ UNCHANGED <<session_vars, llm_vars, returned, entry, argv, file_path, fs, kwargs,
                 report_type, questions, df, invoked, tried, results, requests, inflight,
                 health, charts, report_file, exc>>

\* DataAnalysisChat() followed by interactive_mode()
SessionInit ==
  /\ entry = "interactive_mode"
  /\ argv = <<"data_chat.py">>
  /\ file_path = <<"", "">>
  /\ fs = Missing
  /\ kwargs = NoKwargs
  /\ report_type = NoArg
  /\ questions = NoQuestions
  /\ pc = "interactive_mode"
  /\ Fresh

SessionNext == chat \/ clear \/ show_history \/ exit

SessionSpec == SessionInit /\ [][SessionNext]_vars

\* the values of an environment variable: unset, empty, set
EnvValues == {NoArg, "", "key"}

\* what GET /api/tags without a timeout can come to in setup_ollama
SetupTags == TagsOutcomes \cup {Tags("200", <<>>, "JSONDecodeError")}

\* get_free_llm() or create_agent_with_free_llm(df) called in some environment
LlmInit ==
  /\ entry \in {"get_free_llm", "create_agent_with_free_llm"}
  /\ argv = <<>>
  /\ file_path = <<"", "">>
  /\ fs = Missing
  /\ kwargs = NoKwargs
  /\ report_type = NoArg
  /\ questions = NoQuestions
  /\ pc = "get_free_llm"
  /\ df = IF entry = "get_free_llm" THEN NoneDf ELSE SmallFrame
  /\ invoked = <<>> /\ tried = <<>> /\ out = <<>> /\ results = NoResults
  /\ requests = <<>> /\ inflight = NoRequest /\ health = <<>> /\ charts = <<>>
  /\ report_file = NoFile /\ exc = NoExc /\ returned = <<>>
  /\ reply = NoReply /\ session_history = <<>> /\ chat_log = <<>>
  /\ environ \in [OPENAI_API_KEY : EnvValues, HUGGINGFACE_API_TOKEN : EnvValues]
  /\ services \in [OpenAI : {"ok", "raises"}, Ollama : {"ok", "ImportError"},
                   tags : SetupTags, LiteLLM : {"ok", "ImportError"}]
  /\ probed = <<>>
  /\ llm = NoLlm

LlmNext ==
  \/ get_free_llm_openai
  \/ get_free_llm_ollama
  \/ get_free_llm_litellm
  \/ create_agent_with_free_llm

LlmSpec == LlmInit /\ [][LlmNext]_vars

TxtNext == read_file \/ _read_txt_try \/ _read_txt_fallback

TxtSpec == TxtInit /\ [][TxtNext]_vars

(***************************** two calls on one analyzer ********************)
\* interactive_analysis: the menu loop calls analyze_file again on the same
\* FileDataAnalyzer; here with the same path, questions and reader options, the
\* file unchanged. The new call starts its own separator loop; df, questions and
\* results are assigned by the call before it reads them.
analyze_file_again ==
  /\ pc = "analyze_file_return"
  /\ entry = "analyze_file"
  /\ Len(returned) = 1
  /\ pc' = "read_file"
  /\ tried' = <<>>
  /\ UNCHANGED <<session_vars, llm_vars, returned, entry, argv, file_path, fs, kwargs, report_type, questions, df,
                 invoked, out, results, requests, inflight, health, charts, report_file, exc>>

\* the POST ends against a deterministic collaborator: a prompt it has answered
\* before gets the same outcome again
answer_stub ==
  /\ answer
  /\ \A i \in 1..Len(requests) :
       requests[i].prompt = inflight.prompt => requests'[Len(requests')].outcome = requests[i].outcome

\* analyze_file(path, questions, **read_kwargs) called twice in a row on a CSV
\* or JSON file
TwiceInit ==
  /\ entry = "analyze_file"
  /\ argv = <<>>
  /\ file_path \in {<<"data", ".csv">>, <<"data", ".json">>}
  /\ fs \in FilesAt(file_path)
  /\ kwargs \in KwargsSet
  /\ report_type = NoArg
  /\ questions \in {List(l) : l \in ListsUpTo(MaxQuestions)}
  /\ pc = "read_file"
  /\ Fresh

TwiceNext ==
  \/ read_file
  \/ analyze_file
  \/ ask
  \/ answer_stub
  \/ generate_charts
  \/ analyze_file_again

TwiceSpec == TwiceInit /\ [][TwiceNext]_vars

(***************************** properties ***********************************)
Last(q) == q[Len(q)]
HasAnalyses == "analyses" \in DOMAIN results
\* analyze_file has returned its dict / has let an exception out
AnalyzeFileReturned == "error" \in DOMAIN results \/ "chart_path" \in DOMAIN results
AnalyzeFileRaised == pc = "raised" /\ ~AnalyzeFileReturned
\* read_file has been entered / has returned
ReadFileEntered ==
  pc \in {"_read_txt", "read_file_return", "questions", "chat_with_llm", "analyze_file_return",
          "raised"} \/ DOMAIN results # {}
ReadFileReturned == ReadFileEntered /\ pc # "_read_txt"
ErrorResult == DOMAIN results = {"error"}
Succeeded(o) == o.exception = NoExc /\ o.status = "200"

\* C1: the report analyze_file builds and returns holds one entry per question, in
\* the order of the question list, duplicates included: entry i carries question
\* Q[i], was asked with a prompt for Q[i], and its answer is the text the
\* collaborator returned to that request; the returned report has all len(Q) entries.
C1_OneEntryPerQuestionInOrder ==
  HasAnalyses =>
    /\ Len(results.analyses) <= Len(questions.list)
    /\ Len(requests) = Len(results.analyses)
    /\ \A i \in 1..Len(results.analyses) :
         /\ results.analyses[i].question = questions.list[i]
         /\ requests[i].prompt.question = questions.list[i]
         /\ (Succeeded(requests[i].outcome) /\ requests[i].outcome.has_response
               => results.analyses[i].answer = requests[i].outcome.response)
    /\ (AnalyzeFileReturned => Len(results.analyses) = Len(questions.list))

\* C1 witness: a report returned for the list <<q1, q1>>, whose two identical
\* questions got two entries with different answers
C1_Witness ==
  /\ AnalyzeFileReturned /\ HasAnalyses
  /\ questions.list = <<"q1", "q1">>
  /\ Len(results.analyses) = 2
  /\ results.analyses[1].answer = <<"r1">>
  /\ results.analyses[2].answer # <<"r1">>

\* C2: a request that fails (exception or status other than 200) is recorded as
\* an entry whose answer is the error string with the reason, the answers of the
\* other entries are those of their own requests, no exception leaves
\* analyze_file once requests are being made, and the returned report still has
\* one entry and one request per question.
C2_FailureRecordedLoopContinues ==
  /\ (requests # <<>> \/ inflight # NoRequest) => ~AnalyzeFileRaised
  /\ HasAnalyses =>
       /\ Len(results.analyses) = Len(requests)
       /\ \A i \in 1..Len(requests) :
            LET o == requests[i].outcome
                a == results.analyses[i].answer
            IN /\ (o.exception # NoExc => a = <<"request failed: ", o.exception>>)
               /\ (o.exception = NoExc /\ o.status # "200" => a = <<"error: HTTP ", o.status>>)
               /\ (Succeeded(o) => a = (IF o.has_response THEN o.response ELSE <<>>))
       /\ (AnalyzeFileReturned => Len(requests) = Len(questions.list))

\* C2 witness: a returned report for two questions where the first request
\* failed and the second succeeded
C2_Witness ==
  /\ AnalyzeFileReturned /\ HasAnalyses
  /\ Len(requests) = 2
  /\ ~Succeeded(requests[1].outcome)
  /\ Succeeded(requests[2].outcome)
  /\ results.analyses[2].answer = <<"r1">>

\* C3 (as claimed): once read_file has returned a table, no exception leaves
\* analyze_file.
C3_AnalyzeFileNeverFails ==
  (ReadFileReturned /\ df # NoneDf) => ~AnalyzeFileRaised

\* C4: for a path that does not exist read_file returns None with the
\* file-not-found message and no handler invoked, and analyze_file returns only
\* the error result: no request, no chart, no exception.
C4_MissingFile ==
  (ReadFileEntered /\ ~fs.exists) =>
    /\ df = NoneDf
    /\ invoked = <<>> /\ tried = <<>>
    /\ requests = <<>> /\ inflight = NoRequest /\ charts = <<>>
    /\ pc \in {"read_file_return", "analyze_file_return", "done"}
    /\ (pc = "read_file_return" => Last(out) = "file_not_found")
    /\ (pc # "read_file_return" => ErrorResult)

\* C4 witness: analyze_file has returned for a missing file
C4_Witness == ~fs.exists /\ pc = "analyze_file_return" /\ ErrorResult /\ entry = "analyze_file"

\* the handler the code registers for each recognised extension, compared
\* without regard to case
C5_Registered ==
  (".csv" :> "_read_csv") @@ (".CSV" :> "_read_csv") @@ (".xlsx" :> "_read_excel") @@
  (".xls" :> "_read_excel") @@ (".json" :> "_read_json") @@ (".parquet" :> "_read_parquet") @@
  (".tsv" :> "_read_tsv") @@ (".txt" :> "_read_txt") @@ (".TXT" :> "_read_txt")

\* C5: for an existing file whose extension is not one of the seven, read_file
\* returns None with the unsupported-format message and invokes no handler; for
\* each of the seven it invokes exactly the handler registered for it.
C5_ExtensionDispatch ==
  (ReadFileEntered /\ fs.exists) =>
    IF file_path[2] \in DOMAIN C5_Registered
      THEN invoked = <<C5_Registered[file_path[2]]>>
      ELSE /\ invoked = <<>> /\ tried = <<>>
           /\ df = NoneDf
           /\ (pc = "read_file_return" => Last(out) = "supported_formats")

\* C5 witness: read_file has returned for an existing .dat file
C5_Witness ==
  /\ fs.exists /\ file_path[2] = ".dat"
  /\ pc = "read_file_return" /\ df = NoneDf /\ invoked = <<>>

\* the handler of the file at file_path raises on it
C6_HandlerRaises ==
  /\ fs.exists
  /\ file_path[2] \in DOMAIN C5_Registered
  /\ IF C5_Registered[file_path[2]] = "_read_txt"
       THEN /\ \A i \in 1..Len(separators) : ~accepts(read_csv(fs.content, separators[i], kwargs))
            /\ read_lines_frame(fs.content).raised
       ELSE call_handler(C5_Registered[file_path[2]], fs, kwargs).raised

\* C6: when the handler raises, read_file captures the exception: it returns
\* None after the read-failed message, nothing is raised, and analyze_file
\* returns the error result without any request or chart.
C6_ParseFailureCaptured ==
  (ReadFileReturned /\ C6_HandlerRaises) =>
    /\ df = NoneDf
    /\ exc = NoExc
    /\ pc \in {"read_file_return", "analyze_file_return", "done"}
    /\ (pc = "read_file_return" => Last(out) = "read_failed")
    /\ (pc # "read_file_return" => ErrorResult)
    /\ requests = <<>> /\ charts = <<>>

\* C6 witness: analyze_file has returned the error result for a .json file whose
\* reader raised
C6_Witness ==
  /\ fs.exists /\ file_path[2] = ".json" /\ fs.parsed.raised
  /\ invoked = <<"_read_json">>
  /\ pc = "analyze_file_return" /\ ErrorResult

\* C7: in a run of the CLI where the file could not be loaded, the result is the
\* error result, no request is sent, no chart is made, no report file is
\* written, and the run ends with the failure message.
C7_LoaderErrorAbortsRun ==
  (entry = "main" /\ ReadFileReturned /\ df = NoneDf) =>
    /\ requests = <<>> /\ inflight = NoRequest
    /\ charts = <<>>
    /\ report_file = NoFile
    /\ exc = NoExc
    /\ pc \in {"read_file_return", "analyze_file_return", "done"}
    /\ (pc # "read_file_return" => ErrorResult)
    /\ (pc = "done" => Last(out) = "analysis_failed")

\* C7 witness: a CLI run has ended on an existing file that could not be loaded
C7_Witness ==
  /\ entry = "main" /\ pc = "done" /\ fs.exists /\ ErrorResult
  /\ Len(health) = 1

\* C8 (as claimed): read_file on an existing .txt file returns a table, whatever
\* the content and the reader options.
C8_TxtAlwaysLoads ==
  (pc = "read_file_return" /\ lower(file_path[2]) = ".txt" /\ fs.exists) => df # NoneDf

\* the fixed order of the delimiters
C9_Order == <<",", "\t", ";", "|", " ">>
C9_Yields(i) == accepts(read_csv(fs.content, C9_Order[i], kwargs))

\* C9: _read_txt tries the delimiters in the order comma, tab, semicolon, pipe,
\* space; every delimiter tried before the last one yielded at most one column
\* (or raised); it returns from the loop exactly at the first delimiter that
\* yields more than one column, with that delimiter's table, and tries none after.
C9_FirstDelimiterWins ==
  (lower(file_path[2]) = ".txt" /\ ReadFileEntered /\ fs.exists) =>
    /\ Len(tried) <= Len(C9_Order)
    /\ \A i \in 1..Len(tried) : tried[i] = C9_Order[i]
    /\ \A i \in 1..(Len(tried) - 1) : ~C9_Yields(i)
    /\ (pc = "_read_txt" => \A i \in 1..Len(tried) : ~C9_Yields(i))
    /\ (pc # "_read_txt" /\ (\E i \in 1..Len(C9_Order) : C9_Yields(i)) =>
          /\ C9_Yields(Len(tried))
          /\ df = read_csv(fs.content, C9_Order[Len(tried)], kwargs).df)
    /\ (pc # "_read_txt" /\ ~(\E i \in 1..Len(C9_Order) : C9_Yields(i)) =>
          tried = C9_Order)

\* C9 witness: the comma parse was accepted on a file the semicolon would have
\* parsed into several columns too
C9_Witness ==
  /\ pc = "read_file_return"
  /\ tried = <<",">>
  /\ Len(df.columns) > 1
  /\ accepts(read_csv(fs.content, ";", kwargs))

\* the rows of the file: its lines
C10_Rows == readlines(fs.content)
\* C10 (as claimed): with default reader options, a .txt file on which no
\* delimiter yields more than one column loads as one column with one row per
\* line, each the stripped line; a .txt file of comma-delimited rows of one
\* common width greater than one loads with more than one column.
C10_TxtTableShapes ==
  (pc = "read_file_return" /\ lower(file_path[2]) = ".txt" /\ fs.exists /\ kwargs = NoKwargs) =>
    /\ (\A i \in 1..Len(C9_Order) : ~C9_Yields(i)) =>
          /\ df # NoneDf
          /\ Len(df.columns) = 1
          /\ Len(df.rows) = Len(readlines(fs.content))
          /\ \A i \in 1..Len(df.rows) : df.rows[i] = <<strip(readlines(fs.content)[i])>>
    /\ (/\ C10_Rows # <<>>
        /\ \A i \in 1..Len(C10_Rows) : Len(split(C10_Rows[i], ",")) > 1
        /\ \A i, j \in 1..Len(C10_Rows) :
              Len(split(C10_Rows[i], ",")) = Len(split(C10_Rows[j], ",")))
          => (df # NoneDf /\ Len(df.columns) > 1)

\* the CLI has left its argument checks with a second argument that is not a help flag
MainPastArgs == entry = "main" /\ pc # "main" /\ Len(argv) >= 2 /\ argv[2] \notin HelpFlags
\* nothing beyond printing has happened: no health check, no file read, no
\* request, no chart, no report file, no result, no exception
NoSideEffects ==
  /\ health = <<>>
  /\ invoked = <<>> /\ tried = <<>> /\ df = NoneDf
  /\ requests = <<>> /\ inflight = NoRequest
  /\ charts = <<>>
  /\ report_file = NoFile
  /\ results = NoResults /\ returned = <<>>
  /\ exc = NoExc
\* the names of the stored templates
StoredNames ==
  {"basic", "quality", "business", "statistical", "predictive", "correlation", "anomaly",
   "comprehensive"}

\* C11: a CLI run whose template name is neither a stored template nor 'custom'
\* (compared in lower case) ends at once with the unknown-type message, which
\* names the type and lists every valid name, and without side effects: no
\* health check, no file read, no request, no chart and no report file.
C11_UnknownTemplate ==
  (MainPastArgs /\ Len(argv) >= 3 /\ lower(argv[3]) \notin StoredNames \cup {"custom"}) =>
    /\ pc = "done"
    /\ Len(out) >= 2
    /\ out[1] = "unknown_report_type" /\ out[2] = lower(argv[3])
    /\ \A n \in StoredNames : \E i \in 1..Len(out) : out[i] = n
    /\ NoSideEffects

\* C11 witness: the run for "data.csv nonexistent" on an existing file has ended
C11_Witness ==
  /\ entry = "main" /\ pc = "done"
  /\ Len(argv) = 3 /\ argv[3] = "nonexistent"
  /\ fs.exists
  /\ Last(out) = "comprehensive"

\* C12: a CLI run with 'custom' and no question ends at once with the
\* missing-questions message and without side effects; with one or more questions
\* the questions analysed are exactly the ones on the command line, in their
\* order: the list handed to analyze_file, the question of every request, of
\* every entry and of every section of the report.
C12_CustomQuestions ==
  (MainPastArgs /\ Len(argv) >= 3 /\ lower(argv[3]) = "custom") =>
    IF Len(argv) = 3
      THEN /\ pc = "done"
           /\ out = <<"custom_needs_questions", "example">>
           /\ NoSideEffects
      ELSE /\ report_type = "custom"
           /\ questions.list = SubSeq(argv, 4, Len(argv))
           /\ \A i \in 1..Len(requests) : requests[i].prompt.question = argv[3 + i]
           /\ (HasAnalyses =>
                 \A i \in 1..Len(results.analyses) : results.analyses[i].question = argv[3 + i])
           /\ (report_file # NoFile =>
                 /\ Len(report_file.text.sections) = Len(argv) - 3
                 /\ \A i \in 1..(Len(argv) - 3) :
                      report_file.text.sections[i].question = argv[3 + i])

\* C12 witness: the report of "data.csv custom q2 q1" has been written
C12_Witness ==
  /\ entry = "main" /\ pc = "done"
  /\ Len(argv) = 5 /\ argv[4] = "q2" /\ argv[5] = "q1"
  /\ report_file # NoFile
  /\ Len(requests) = 2

\* no template name was given: the CLI was run with the path alone, or
\* analyze_file was called without questions
C13_NoTemplateName ==
  \/ MainPastArgs /\ Len(argv) = 2
  \/ entry = "analyze_file" /\ ~questions.given

\* C13 (as claimed): when no template name is given, the questions analysed are
\* those of the 'comprehensive' template.
C13_DefaultIsComprehensive ==
  (C13_NoTemplateName /\ HasAnalyses) =>
    /\ questions.list = REPORT_TEMPLATES.comprehensive
    /\ \A i \in 1..Len(requests) :
         requests[i].prompt.question = REPORT_TEMPLATES.comprehensive[i]

\* C14: the catalog holds exactly the eight stored templates, 'custom' is not
\* one of them, each is a non-empty sequence, and the sequence a CLI run looked
\* up for its template is still the catalog's sequence for that name in every
\* later state of the run (nothing the run does changes it).
C14_TemplatesFixed ==
  /\ DOMAIN REPORT_TEMPLATES = StoredNames
  /\ "custom" \notin DOMAIN REPORT_TEMPLATES
  /\ \A n \in DOMAIN REPORT_TEMPLATES : Len(REPORT_TEMPLATES[n]) > 0
  /\ \A i \in 1..Len(template_names) : template_names[i] \in DOMAIN REPORT_TEMPLATES
  /\ (MainPastArgs /\ report_type \in StoredNames /\ questions.given) =>
       questions.list = REPORT_TEMPLATES[report_type]

\* C14 witness: the report of the 'quality' template, looked up as QUALITY, has
\* been written with its four questions
C14_Witness ==
  /\ entry = "main" /\ pc = "done"
  /\ Len(argv) = 3 /\ argv[3] = "QUALITY"
  /\ report_file # NoFile
  /\ Len(report_file.text.sections) = 4
  /\ report_file.text.sections[4].question = "quality: source stability"

\* the last call of generate_charts returned None
ChartFailed == charts # <<>> /\ Last(charts).result = NonePath

\* C15: when generate_charts fails (returns None), analyze_file still returns the
\* report: chart_path is None and the entries are all there, one per question
\* with the answer of its own request; and the CLI goes on to write the report
\* file with one section per entry (only a failure of the write itself, as in
\* C17, keeps the file from being written).
C15_ChartFailureNonFatal ==
  ChartFailed =>
    /\ "chart_path" \in DOMAIN results
    /\ results.chart_path = NonePath
    /\ Last(returned) = results
    /\ Len(results.analyses) = Len(questions.list)
    /\ Len(requests) = Len(questions.list)
    /\ \A i \in 1..Len(questions.list) :
         results.analyses[i] = [question |-> questions.list[i],
                                answer |-> chat_with_llm(requests[i].outcome)]
    /\ (pc = "raised" => entry = "main" /\ exc = "OSError")
    /\ (entry = "main" /\ pc = "done" =>
          /\ report_file # NoFile
          /\ Len(report_file.text.sections) = Len(questions.list)
          /\ Last(out) = "report_saved")

\* C15 witness: a CLI run whose chart failed has written its report
C15_Witness ==
  /\ entry = "main" /\ pc = "done"
  /\ ChartFailed
  /\ results.chart_path = NonePath
  /\ report_file # NoFile
  /\ Len(report_file.text.sections) = 4

\* C16: the report file holds, after the header naming the report type and the
\* source path, exactly one section per entry of the analyses list, in the list's
\* order, numbered 1, 2, ..., each with that entry's question and answer and
\* then the separator rule.
C16_ReportSections ==
  report_file # NoFile =>
    /\ report_file.text.header = <<upper(report_type), file_path>>
    /\ Len(report_file.text.sections) = Len(results.analyses)
    /\ \A i \in 1..Len(results.analyses) :
         report_file.text.sections[i] =
           [number |-> i, question |-> results.analyses[i].question,
            answer |-> results.analyses[i].answer, rule |-> "----"]

\* C16 witness: a written report of two sections whose answers differ
C16_Witness ==
  /\ report_file # NoFile
  /\ Len(report_file.text.sections) = 2
  /\ report_file.text.sections[1].question = "q2"
  /\ report_file.text.sections[2].question = "q1"
  /\ report_file.text.sections[1].answer # report_file.text.sections[2].answer

\* the run has printed that the report was saved
ReportedSaved == \E i \in 1..Len(out) : out[i] = "report_saved"

\* C17: when the report file cannot be opened for writing, the OSError leaves
\* main (it is not caught), no report file exists, and the run has not printed
\* that the report was saved; the saved message is printed only after the file
\* has been written.
C17_IOFailureSurfaced ==
  /\ (exc = "OSError" =>
        /\ entry = "main" /\ pc = "raised"
        /\ report_file = NoFile
        /\ ~ReportedSaved)
  /\ (ReportedSaved => report_file # NoFile /\ exc = NoExc /\ pc = "done")

\* C17 witness: the write of a report of two answered questions failed
C17_Witness ==
  /\ entry = "main" /\ pc = "raised" /\ exc = "OSError"
  /\ HasAnalyses /\ Len(results.analyses) = 2
  /\ report_file = NoFile

\* one of the failures of the taxonomy has happened in this run
C18_TaxonomyFailure ==
  \/ ReadFileEntered /\ ~fs.exists
  \/ ReadFileEntered /\ fs.exists /\ file_path[2] \notin DOMAIN C5_Registered
  \/ ReadFileReturned /\ C6_HandlerRaises
  \/ MainPastArgs /\ Len(argv) >= 3 /\ lower(argv[3]) \notin StoredNames \cup {"custom"}
  \/ MainPastArgs /\ Len(argv) = 3 /\ lower(argv[3]) = "custom"
  \/ \E i \in 1..Len(requests) : ~Succeeded(requests[i].outcome)
  \/ ChartFailed
  \/ exc = "OSError"

\* C18 (as claimed): in a CLI run where a failure of the taxonomy has happened,
\* no exception leaves main, and a run that has ended has printed a message.
C18_NoUnhandledException ==
  (entry = "main" /\ C18_TaxonomyFailure) =>
    /\ pc # "raised"
    /\ exc = NoExc
    /\ (pc = "done" => out # <<>>)

\* C20: analyze_file sends one request per question and nothing else: the i-th
\* request sent (or in flight) carries the i-th question, so no question is sent
\* twice and none is skipped, also after a failed request; the returned report
\* was built with exactly len(questions) requests.
C20_OneRequestPerQuestion ==
  HasAnalyses =>
    /\ Len(requests) + (IF inflight # NoRequest THEN 1 ELSE 0) <= Len(questions.list)
    /\ \A i \in 1..Len(requests) : requests[i].prompt.question = questions.list[i]
    /\ (inflight # NoRequest => inflight.prompt.question = questions.list[Len(requests) + 1])
    /\ (pc = "questions" => inflight = NoRequest)
    /\ (AnalyzeFileReturned => Len(requests) = Len(questions.list) /\ inflight = NoRequest)

\* C20 witness: a report returned for two questions whose requests both failed,
\* one by status and one by exception
C20_Witness ==
  /\ AnalyzeFileReturned /\ HasAnalyses
  /\ Len(questions.list) = 2 /\ Len(requests) = 2
  /\ requests[1].outcome.status = "500"
  /\ requests[2].outcome.exception = "ReadTimeout"

\* the entries of a returned dict (none for the error result)
Analyses(res) == IF "analyses" \in DOMAIN res THEN res.analyses ELSE <<>>

\* C19: for two calls of analyze_file in a row with the same path, table and
\* questions against a deterministic collaborator: the second call sends, for
\* each question, the very prompt the first call sent for it (the prompt is
\* prompt(path, table, question) and nothing else), the entries it builds are at
\* every moment a prefix of the first call's entries, and the two returned
\* dicts have the same keys and identical sequences of {question, answer} pairs.
C19_Idempotent ==
  /\ \A i \in 1..Len(requests) :
       /\ requests[i].prompt.question \in {questions.list[k] : k \in 1..Len(questions.list)}
       /\ requests[i].prompt = prompt(file_path, df, requests[i].prompt.question)
  /\ (Len(returned) >= 1 =>
        LET n == Len(Analyses(returned[1]))
        IN /\ \A i \in (n + 1)..Len(requests) : requests[i].prompt = requests[i - n].prompt
           /\ (pc \in {"questions", "chat_with_llm"} =>
                 /\ Len(results.analyses) <= n
                 /\ results.analyses = SubSeq(returned[1].analyses, 1, Len(results.analyses))))
  /\ (Len(returned) = 2 =>
        /\ (DOMAIN returned[1]) = (DOMAIN returned[2])
        /\ Analyses(returned[1]) = Analyses(returned[2])
        /\ Len(requests) = 2 * Len(Analyses(returned[1])))

\* C19 witness: the second call has returned, after two questions of which the
\* collaborator answered one and failed the other, both times alike
C19_Witness ==
  /\ Len(returned) = 2
  /\ Len(Analyses(returned[2])) = 2
  /\ Len(requests) = 4
  /\ Succeeded(requests[3].outcome)
  /\ ~Succeeded(requests[4].outcome)

\* C21: requests are made one at a time: one is in flight only while the loop
\* waits in chat_with_llm, and then every earlier request has ended and has its
\* entry; a request is issued only when none is in flight, every request so far
\* has ended and its entry has been appended, and it is the request of the next
\* question in the list.
C21_Sequential ==
  /\ [](/\ (inflight # NoRequest <=> pc = "chat_with_llm")
        /\ (inflight # NoRequest =>
              /\ Len(results.analyses) = Len(requests)
              /\ inflight.prompt.question = questions.list[Len(requests) + 1]))
  /\ [][(inflight' # NoRequest /\ inflight' # inflight) =>
          /\ inflight = NoRequest
          /\ Len(results.analyses) = Len(requests)
          /\ requests' = requests
          /\ inflight'.prompt.question = questions.list[Len(requests) + 1]]_vars

\* C21 witness: the request of the second question is in flight after the first
\* one timed out and its entry was appended
C21_Witness ==
  /\ inflight # NoRequest
  /\ Len(requests) = 1 /\ Len(results.analyses) = 1
  /\ requests[1].outcome.exception = "ReadTimeout"
  /\ inflight.prompt.question = "q2"

\* C22: generate_charts is called at most once in a call of analyze_file, never
\* while questions are still to be asked or a request is in flight, and never
\* for an error result; when it has been called every question has its entry
\* and the result of the call (a path or None) is the chart_path of the dict
\* that was returned; a returned report always comes with exactly one call.
C22_ChartOnceAfterQuestions ==
  /\ Len(charts) <= 1
  /\ (charts # <<>> =>
        /\ "chart_path" \in DOMAIN results
        /\ Len(results.analyses) = Len(questions.list)
        /\ Len(requests) = Len(questions.list)
        /\ results.chart_path = charts[1].result
        /\ returned = <<results>>
        /\ charts[1].path = file_path
        /\ pc \in {"analyze_file_return", "done", "raised"})
  /\ (pc \in {"questions", "chat_with_llm"} => charts = <<>>)
  /\ ("chart_path" \in DOMAIN results => Len(charts) = 1)
  /\ (ErrorResult => charts = <<>>)

\* C22 witness: a report of two entries returned with the path of its chart
C22_Witness ==
  /\ pc = "analyze_file_return"
  /\ Len(charts) = 1 /\ charts[1].result # NonePath
  /\ Len(results.analyses) = 2
  /\ results.chart_path = charts[1].result

\* read_file is over for this run
C23_Loaded == pc \in {"read_file_return", "questions", "chat_with_llm", "analyze_file_return", "done"}

\* C23: once read_file has returned, no step changes the table (building a
\* prompt, the request, chart generation, writing the report), and the preview,
\* shape, columns and statistics of every prompt sent are those of that table;
\* the table handed to generate_charts is the one that was loaded.
C23_TableReadOnly ==
  /\ [][C23_Loaded => df' = df]_vars
  /\ [](\A i \in 1..Len(requests) :
          /\ requests[i].prompt.columns = df.columns
          /\ requests[i].prompt.shape = shape(df)
          /\ requests[i].prompt.head = head(df)
          /\ requests[i].prompt.describe = describe(df).stats)
  /\ [](\A i \in 1..Len(charts) : charts[i].df = df)

\* C23 witness: a chart has been made of a loaded table after two requests
C23_Witness ==
  /\ Len(charts) = 1 /\ charts[1].result # NonePath
  /\ Len(requests) = 2
  /\ df # NoneDf /\ Len(df.columns) = 2

\* the two shapes of a result
C25_ErrorShape(res) == DOMAIN res = {"error"}
C25_ReportShape(res) == DOMAIN res = {"file_info", "analyses", "chart_path"}

\* C25: every dict analyze_file returns has only the key 'error', or exactly the
\* keys file_info, analyses and chart_path; it is the first exactly when
\* read_file returned None, and then no request was sent and no chart made.
C25_ResultShapes ==
  \A i \in 1..Len(returned) :
    /\ C25_ErrorShape(returned[i]) \/ C25_ReportShape(returned[i])
    /\ (C25_ErrorShape(returned[i]) <=> df = NoneDf)
    /\ (C25_ErrorShape(returned[i]) => requests = <<>> /\ charts = <<>>)
    /\ returned[i] = results

\* C25 witness: an error result and nothing else was returned for a file whose
\* reader raised
C25_Witness ==
  /\ Len(returned) = 1 /\ C25_ErrorShape(returned[1])
  /\ fs.exists /\ invoked # <<>>
  /\ pc = "analyze_file_return"

\* attempt i of _read_txt raises / raises or gives at most one column
C27_Raised(i) == read_csv(fs.content, C9_Order[i], kwargs).raised
C27_Refused(i) ==
  LET r == read_csv(fs.content, C9_Order[i], kwargs)
  IN r.raised \/ Len(r.df.columns) <= 1

\* C27: in _read_txt an attempt that raises is passed over like one that yields
\* at most one column: no exception leaves the loop, the loop goes on as long as
\* every attempt so far raised or gave at most one column, and when the loop is
\* left either the last attempt was accepted or all five were made and each
\* raised or gave at most one column, and the result is that of the fallback.
C27_RaiseSwallowed ==
  (lower(file_path[2]) = ".txt" /\ ReadFileEntered /\ fs.exists) =>
    /\ exc = NoExc /\ pc # "raised"
    /\ (pc = "_read_txt" => \A i \in 1..Len(tried) : C27_Refused(i))
    /\ \A i \in 1..Len(tried) :
         (C27_Raised(i) /\ i < Len(C9_Order)) => (pc = "_read_txt" \/ Len(tried) > i)
    /\ (pc # "_read_txt" =>
          \/ /\ ~C27_Refused(Len(tried))
             /\ df = read_csv(fs.content, C9_Order[Len(tried)], kwargs).df
          \/ /\ Len(tried) = Len(C9_Order)
             /\ \A i \in 1..Len(C9_Order) : C27_Refused(i)
             /\ df = read_lines_frame(fs.content).df)

\* C27 witness: with sep=';' passed on, all five attempts raise (sep given
\* twice) and the file is read by the fallback as one line
C27_Witness ==
  /\ pc = "read_file_return"
  /\ kwargs.sep = ";"
  /\ tried = C9_Order
  /\ \A i \in 1..Len(C9_Order) : C27_Raised(i)
  /\ df # NoneDf /\ Len(df.columns) = 1 /\ Len(df.rows) = 1

\* q is one of the eight built-in questions
C30_IsDefault(q) == \E k \in 1..Len(default_questions) : default_questions[k] = q

\* C30: called without questions, analyze_file asks its eight built-in
\* questions, in their order; a list the caller passed is used as it is, never
\* replaced by the built-in ones, and when it is empty the returned report has
\* no entry, no request was sent, and the chart was requested once and attached.
C30_NoneVersusEmpty ==
  (entry = "analyze_file" /\ HasAnalyses) =>
    /\ (~questions.given =>
          /\ Len(questions.list) = 8
          /\ questions.list = default_questions
          /\ \A i \in 1..Len(requests) : requests[i].prompt.question = default_questions[i]
          /\ (AnalyzeFileReturned => Len(requests) = 8 /\ Len(results.analyses) = 8))
    /\ (questions.given =>
          /\ \A i \in 1..Len(questions.list) : ~C30_IsDefault(questions.list[i])
          /\ \A i \in 1..Len(requests) : ~C30_IsDefault(requests[i].prompt.question)
          /\ (questions.list = <<>> =>
                /\ requests = <<>> /\ inflight = NoRequest
                /\ results.analyses = <<>>
                /\ (AnalyzeFileReturned =>
                      Len(charts) = 1 /\ results.chart_path = charts[1].result)))

\* C30 witness: the report of an empty question list, returned with its chart
C30_Witness ==
  /\ entry = "analyze_file" /\ questions.given /\ questions.list = <<>>
  /\ pc = "analyze_file_return"
  /\ "chart_path" \in DOMAIN results /\ results.chart_path # NonePath
  /\ results.analyses = <<>> /\ requests = <<>>

\* the health/list endpoint answered with status 200 and at least one model
C24_Healthy(r) == r.exception = NoExc /\ r.status = "200" /\ r.models # <<>>
\* the run has gone on to the analysis
C24_Proceeded ==
  \/ pc \in {"read_file", "_read_txt", "read_file_return", "questions", "chat_with_llm",
             "analyze_file_return", "raised"}
  \/ invoked # <<>> \/ results # NoResults \/ requests # <<>> \/ charts # <<>>
  \/ report_file # NoFile

\* C24: a run of either command-line program asks the health/list endpoint
\* at most once and goes on to the analysis only after it answered with status
\* 200 and a non-empty model list; after any other outcome (no connection,
\* another status, no model) the run has ended with the matching message, and
\* no file was read, no request sent, no chart made and no report written.
C24_HealthGate ==
  entry \in {"main", "analyze_file.py"} =>
    /\ Len(health) <= 1
    /\ (C24_Proceeded => Len(health) = 1 /\ C24_Healthy(health[1]))
    /\ (health # <<>> /\ ~C24_Healthy(health[1]) =>
          /\ pc = "done"
          /\ Last(out) = (IF health[1].exception # NoExc THEN "cannot_connect"
                          ELSE IF health[1].status # "200" THEN "service_not_running"
                          ELSE "no_model")
          /\ invoked = <<>> /\ tried = <<>> /\ df = NoneDf
          /\ requests = <<>> /\ inflight = NoRequest
          /\ charts = <<>>
          /\ report_file = NoFile
          /\ results = NoResults /\ returned = <<>>
          /\ exc = NoExc)

\* C24 witness: analyze_file.py has ended because the endpoint listed no model,
\* on a file that exists
C24_Witness ==
  /\ entry = "analyze_file.py" /\ pc = "done"
  /\ fs.exists
  /\ Len(health) = 1 /\ health[1].status = "200" /\ health[1].models = <<>>
  /\ Last(out) = "no_model"

C28_Ok(r) == r.exception = NoExc /\ r.status = "200"

RECURSIVE C28_Expected(_)
\* the pairs of the successful chats of a log since its last clear, in order
C28_Expected(log) ==
  IF log = <<>> THEN <<>>
  ELSE LET e == log[Len(log)]
           rest == C28_Expected(SubSeq(log, 1, Len(log) - 1))
       IN IF e.op = "clear" THEN <<>>
          ELSE IF e.op = "chat" /\ C28_Ok(e.outcome)
            THEN Append(rest, [question |-> e.question,
                               answer |-> IF e.outcome.has_response THEN e.outcome.response
                                          ELSE <<>>])
          ELSE rest

\* C28: after any sequence of chat, clear and history operations on a
\* DataAnalysisChat, session_history holds exactly the {question, answer} pairs
\* of the chats that succeeded with status 200 since the last clear, in the
\* order asked; a chat that failed (another status, or an exception, that of a
\* 200 response whose body could not be read included) returned an error string
\* carrying the status or the exception and is not in the history; right after
\* clear the history is empty.
C28_SessionHistory ==
  entry = "interactive_mode" =>
    /\ session_history = C28_Expected(chat_log)
    /\ \A i \in 1..Len(chat_log) :
         chat_log[i].op = "chat" /\ ~C28_Ok(chat_log[i].outcome) =>
           /\ chat_log[i].returned =
                (IF chat_log[i].outcome.exception # NoExc
                   THEN <<"connection failed: ", chat_log[i].outcome.exception>>
                   ELSE <<"request failed: ", chat_log[i].outcome.status>>)
           /\ \A j \in 1..Len(session_history) :
                session_history[j].answer # chat_log[i].returned
    /\ (chat_log # <<>> /\ chat_log[Len(chat_log)].op = "clear" => session_history = <<>>)

\* C28 witness: a successful chat, clear, a chat refused with status 500 and a
\* successful chat have left the one pair of the last chat
C28_Witness ==
  /\ Len(chat_log) = 4
  /\ chat_log[1].op = "chat" /\ C28_Ok(chat_log[1].outcome) /\ chat_log[1].question = "q1"
  /\ chat_log[2].op = "clear"
  /\ chat_log[3].op = "chat" /\ chat_log[3].outcome.status = "500"
  /\ chat_log[4].op = "chat" /\ C28_Ok(chat_log[4].outcome) /\ chat_log[4].question = "q2"
  /\ session_history = <<[question |-> "q2", answer |-> <<"r1">>]>>

\* the setup functions in the order of their priorities
C29_Order == <<"setup_openai", "setup_ollama", "setup_litellm">>
\* get_free_llm has returned
C29_Returned == pc \in {"get_free_llm_return", "done"}

\* C29: get_free_llm calls the setup functions in the fixed order OpenAI,
\* Ollama, LiteLLM, OpenAI only when OPENAI_API_KEY is set; a setup function is
\* called only after every one called before it returned None; the client
\* returned is that of the last setup function called, so nothing is probed
\* after a success; and None is returned exactly when every setup function
\* that was called returned None, Ollama and LiteLLM being among them.
C29_PriorityOrder ==
  entry \in {"get_free_llm", "create_agent_with_free_llm"} =>
    /\ LET skip == IF probed # <<>> /\ probed[1].name = "setup_openai" THEN 0 ELSE 1
       IN /\ Len(probed) + skip <= 3
          /\ \A i \in 1..Len(probed) : probed[i].name = C29_Order[i + skip]
    /\ (\E i \in 1..Len(probed) : probed[i].name = "setup_openai") =>
          environ.OPENAI_API_KEY # NoArg
    /\ (truthy(environ.OPENAI_API_KEY) /\ pc # "get_free_llm" =>
          probed[1].name = "setup_openai")
    /\ \A i \in 1..(Len(probed) - 1) : probed[i].result = None
    /\ (C29_Returned =>
          /\ probed # <<>>
          /\ probed[Len(probed)].result.kind # "raise"
          /\ llm = probed[Len(probed)].result
          /\ (llm = None <=> \A i \in 1..Len(probed) : probed[i].result = None)
          /\ (llm = None => /\ \E i \in 1..Len(probed) : probed[i].name = "setup_ollama"
                            /\ probed[Len(probed)].name = "setup_litellm"))
    /\ (pc = "raised" => probed # <<>> /\ probed[Len(probed)].result.kind = "raise")

\* C29 witness: without an OpenAI key, get_free_llm has returned the Ollama
\* client of the first listed model and has not called setup_litellm, which
\* would have had a client too
C29_Witness ==
  /\ entry = "get_free_llm" /\ pc = "get_free_llm_return"
  /\ environ.OPENAI_API_KEY = NoArg
  /\ setup_litellm(environ, services).kind = "llm"
  /\ Len(probed) = 1 /\ probed[1].name = "setup_ollama"
  /\ llm = Client("Ollama", "codellama:7b")

====
